---- MODULE Spec2Model ----
(***************************************************************************)
(* Model of gh-update-checker (include/check_gh-update.hpp and the CLI).   *)
(* Strings are sequences of one-character strings, so that the regular     *)
(* expression searches, the substring test and the numeric conversion are  *)
(* computed character by character as the code computes them.              *)
(***************************************************************************)
EXTENDS Integers, Sequences, FiniteSets, TLC

VARIABLES
    \* --- SemVer::parse on one text (SpecParse) ---
    vin,        \* the text handed to SemVer::parse, with how it was written
    vout,       \* what SemVer::parse returned or threw
    ppc,        \* "init" | "parsed"
    \* --- SemVer comparison on three versions (SpecCmp) ---
    cin,        \* three version texts
    cver,       \* the three parsed versions
    cres,       \* results of the comparison operators
    cpc,        \* "init" | "parsed" | "compared"
    \* --- to_github_api_url on two references (SpecUrl) ---
    uin,        \* two repository references, with the owner/repo they name
    uout,       \* to_github_api_url of each
    uout2,      \* to_github_api_url applied to the first output again
    upc,        \* per reference: "init" | "done" ; third slot: re-normalised
    \* --- one check_github_update call (Spec) ---
    repoUrl,        \* argument repoUrl
    localVersion,   \* argument localVersion
    pc,             \* position inside check_github_update
    apiUrl,         \* local apiUrl
    res,            \* how http_get ended: CURLcode res, or curl init failure
    body,           \* response the transport delivered (jsonText)
    json,           \* parsed document
    latest,         \* local latest
    local,          \* local SemVer local
    remote,         \* local SemVer remote
    fetchCount,     \* number of http_get invocations in this call
    result,         \* outcome of the call: none, UpdateInfo, or exception
    \* --- the command-line program main (SpecCli) ---
    argc,           \* argument count, program name included
    argv,           \* the positional arguments argv[1], argv[2], ...
    mpc,            \* position inside main
    exitCode,       \* value returned by main, -1 while it runs
    out,            \* lines written to std::cout
    errOut,         \* lines written to std::cerr
    \* --- check_github_update_async and its caller (SpecAsync) ---
    aargs,          \* the by-value parameters repoUrl, localVersion
    apc,            \* position of the caller of the async wrapper
    future,         \* shared state of the returned std::future
    got,            \* what future.get() returned or rethrew
    \* --- several calls running at the same time (SpecConc) ---
    inv             \* per invocation: its arguments, locals and outcome

parseVars == <<vin, vout, ppc>>
cmpVars   == <<cin, cver, cres, cpc>>
urlVars   == <<uin, uout, uout2, upc>>
checkVars == <<repoUrl, localVersion, pc, apiUrl, res, body, json, latest,
               local, remote, fetchCount, result>>
cliVars   == <<argc, argv, mpc, exitCode, out, errOut>>
asyncVars == <<aargs, apc, future, got>>
concVars  == <<inv>>
hostVars  == <<cliVars, asyncVars, concVars>>
vars      == <<parseVars, cmpVars, urlVars, checkVars, hostVars>>

----------------------------------------------------------------------------
(* Bounds *)

\* version components 0..MaxNum are written in decimal in the parse inputs
MaxNum == 10
\* version components 0..MaxCmp in the comparison inputs
MaxCmp == 2
\* number of check invocations running at the same time
NumInv == 2

(* Program constants *)

\* largest value of the int fields major/minor/patch (std::stoi range)
INT_MAX == 2147483647

----------------------------------------------------------------------------
(* Characters and strings *)

Digits == {"0","1","2","3","4","5","6","7","8","9"}

DigitVal(c) ==
    CASE c = "0" -> 0 [] c = "1" -> 1 [] c = "2" -> 2 [] c = "3" -> 3
      [] c = "4" -> 4 [] c = "5" -> 5 [] c = "6" -> 6 [] c = "7" -> 7
      [] c = "8" -> 8 [] c = "9" -> 9

DigitChar(d) == <<"0","1","2","3","4","5","6","7","8","9">>[d + 1]

\* decimal numeral of a natural number (how a caller writes a component)
RECURSIVE ToDigits(_)
ToDigits(n) ==
    IF n < 10 THEN <<DigitChar(n)>>
    ELSE ToDigits(n \div 10) \o <<DigitChar(n % 10)>>

\* s has t as a substring starting at position i (1-based)
OccursAt(s, t, i) ==
    /\ i >= 1
    /\ i + Len(t) - 1 <= Len(s)
    /\ \A k \in 1..Len(t) : s[i + k - 1] = t[k]

\* std::string_view::find(t) != npos
Contains(s, t) == \E i \in 1..(Len(s) + 1) : OccursAt(s, t, i)

\* std::string::ends_with
EndsWith(s, t) == Len(s) >= Len(t) /\ OccursAt(s, t, Len(s) - Len(t) + 1)

\* end (exclusive) of the longest run of digits starting at i: greedy \d+
RECURSIVE DigitRunEnd(_, _)
DigitRunEnd(s, i) ==
    IF i <= Len(s) /\ s[i] \in Digits THEN DigitRunEnd(s, i + 1) ELSE i

\* end (exclusive) of the longest run of non-slash characters: greedy [^/]+
RECURSIVE NonSlashRunEnd(_, _)
NonSlashRunEnd(s, i) ==
    IF i <= Len(s) /\ s[i] # "/" THEN NonSlashRunEnd(s, i + 1) ELSE i

Slice(s, from, to) == IF from >= to THEN <<>> ELSE SubSeq(s, from, to - 1)

----------------------------------------------------------------------------
(* Exceptions *)

NoError == [type |-> "none", what |-> "", arg |-> <<>>]

\* throw std::runtime_error(what + arg)
RuntimeError(w, a) == [type |-> "std::runtime_error", what |-> w, arg |-> a]

\* std::stoi throws std::out_of_range("stoi") when the value does not fit int
OutOfRange == [type |-> "std::out_of_range", what |-> "stoi", arg |-> <<>>]

\* nlohmann::json::parse throws json::parse_error on malformed text
JsonParseError == [type |-> "nlohmann::json::parse_error",
                   what |-> "parse error", arg |-> <<>>]

----------------------------------------------------------------------------
(* SemVer *)

SemVer(ma, mi, pa) == [major |-> ma, minor |-> mi, patch |-> pa]

\* std::stoi on a run of digits: -1 stands for std::out_of_range
RECURSIVE stoi_acc(_, _, _)
stoi_acc(s, i, acc) ==
    IF i > Len(s) THEN acc
    ELSE IF acc > (INT_MAX - DigitVal(s[i])) \div 10 THEN -1
    ELSE stoi_acc(s, i + 1, acc * 10 + DigitVal(s[i]))

stoi(s) == stoi_acc(s, 1, 0)

\* one attempt of the regex  v?(\d+)\.(\d+)(?:\.(\d+))?  at position i
SemVerMatchAt(s, i) ==
    LET d1  == IF i <= Len(s) /\ s[i] = "v" THEN i + 1 ELSE i
        e1  == DigitRunEnd(s, d1)
        d2  == e1 + 1
        e2  == DigitRunEnd(s, d2)
        d3  == e2 + 1
        e3  == DigitRunEnd(s, d3)
        ok  == /\ e1 > d1
               /\ e1 <= Len(s) /\ s[e1] = "."
               /\ e2 > d2
        has3 == ok /\ e2 <= Len(s) /\ s[e2] = "." /\ e3 > d3
    IN [matched |-> ok,
        m1 |-> IF ok THEN Slice(s, d1, e1) ELSE <<>>,
        m2 |-> IF ok THEN Slice(s, d2, e2) ELSE <<>>,
        m3matched |-> has3,
        m3 |-> IF has3 THEN Slice(s, d3, e3) ELSE <<>>]

\* a slip: std::regex_match-like, only the given position is tried
SemVerSearch_anchored(s, i) == SemVerMatchAt(s, i)

\* std::regex_search: the match at the leftmost position that has one
RECURSIVE SemVerSearch(_, _)
SemVerSearch(s, i) ==
    IF i > Len(s) THEN SemVerMatchAt(s, i)
    ELSE IF SemVerMatchAt(s, i).matched THEN SemVerMatchAt(s, i)
    ELSE SemVerSearch(s, i + 1)

ParseOk(sv)   == [ok |-> TRUE, ver |-> sv, err |-> NoError]
ParseFail(e)  == [ok |-> FALSE, ver |-> SemVer(0, 0, 0), err |-> e]

\* a slip: the patch group is never read
SemVer_parse_nopatch(v) ==
    LET m == SemVerSearch(v, 1)
    IN IF ~m.matched THEN ParseFail(RuntimeError("Invalid SemVer: ", v))
       ELSE IF stoi(m.m1) < 0 \/ stoi(m.m2) < 0 THEN ParseFail(OutOfRange)
       ELSE ParseOk(SemVer(stoi(m.m1), stoi(m.m2), 0))

\* a slip: a text without a version pattern parses as 0.0.0
SemVer_parse_default(v) ==
    LET m == SemVerSearch(v, 1)
    IN IF ~m.matched THEN ParseOk(SemVer(0, 0, 0))
       ELSE IF stoi(m.m1) < 0 \/ stoi(m.m2) < 0 THEN ParseFail(OutOfRange)
       ELSE IF m.m3matched /\ stoi(m.m3) < 0 THEN ParseFail(OutOfRange)
       ELSE ParseOk(SemVer(stoi(m.m1), stoi(m.m2),
                           IF m.m3matched THEN stoi(m.m3) ELSE 0))

\* what SemVer::parse does with the match result m of the text v: the throw
\* when nothing matched, else the three std::stoi conversions in order
SemVer_from_match(v, m) ==
    IF ~m.matched THEN ParseFail(RuntimeError("Invalid SemVer: ", v))
    ELSE IF stoi(m.m1) < 0 THEN ParseFail(OutOfRange)
    ELSE IF stoi(m.m2) < 0 THEN ParseFail(OutOfRange)
    ELSE IF m.m3matched /\ stoi(m.m3) < 0 THEN ParseFail(OutOfRange)
    ELSE ParseOk(SemVer(stoi(m.m1), stoi(m.m2),
                        IF m.m3matched THEN stoi(m.m3) ELSE 0))

\* static SemVer SemVer::parse(std::string_view v): the one regex_search
\* fills m, which the rest of the function reads
SemVer_parse(v) ==
    CHOOSE r \in { SemVer_from_match(v, m) : m \in {SemVerSearch(v, 1)} } :
        TRUE

----------------------------------------------------------------------------
(* SemVer comparison: auto operator<=>(const SemVer&) const = default *)

CmpInt(x, y) == IF x < y THEN -1 ELSE IF x > y THEN 1 ELSE 0

\* a slip: members compared in the order minor, major, patch
SemVer_cmp_minorfirst(a, b) ==
    IF CmpInt(a.minor, b.minor) # 0 THEN CmpInt(a.minor, b.minor)
    ELSE IF CmpInt(a.major, b.major) # 0 THEN CmpInt(a.major, b.major)
    ELSE CmpInt(a.patch, b.patch)

\* the defaulted three-way comparison: members in declaration order
SemVer_cmp(a, b) ==
    IF CmpInt(a.major, b.major) # 0 THEN CmpInt(a.major, b.major)
    ELSE IF CmpInt(a.minor, b.minor) # 0 THEN CmpInt(a.minor, b.minor)
    ELSE CmpInt(a.patch, b.patch)

\* the relational operators the compiler rewrites in terms of <=>
SemVer_lt(a, b) == SemVer_cmp(a, b) < 0
SemVer_gt(a, b) == SemVer_cmp(a, b) > 0
SemVer_le(a, b) == SemVer_cmp(a, b) <= 0
SemVer_ge(a, b) == SemVer_cmp(a, b) >= 0
SemVer_eq(a, b) == SemVer_cmp(a, b) = 0
SemVer_ne(a, b) == SemVer_cmp(a, b) # 0

----------------------------------------------------------------------------
(* to_github_api_url *)

Https      == <<"h","t","t","p","s",":","/","/">>
GithubCom  == <<"g","i","t","h","u","b",".","c","o","m">>
ApiHost    == <<"a","p","i",".">> \o GithubCom
WebPrefix  == Https \o GithubCom \o <<"/">>
ApiPrefix  == Https \o ApiHost \o <<"/","r","e","p","o","s","/">>
ApiSuffix  == <<"/","r","e","l","e","a","s","e","s","/","l","a","t","e","s","t">>
DotGit     == <<".","g","i","t">>

\* one attempt of the regex  https://github\.com/([^/]+)/([^/]+)  at i
UrlMatchAt(s, i) ==
    LET o1 == i + Len(WebPrefix)
        oe == NonSlashRunEnd(s, o1)
        r1 == oe + 1
        re == NonSlashRunEnd(s, r1)
        ok == /\ OccursAt(s, WebPrefix, i)
              /\ oe > o1
              /\ oe <= Len(s) /\ s[oe] = "/"
              /\ re > r1
    IN [matched |-> ok,
        m1 |-> IF ok THEN Slice(s, o1, oe) ELSE <<>>,
        m2 |-> IF ok THEN Slice(s, r1, re) ELSE <<>>]

\* std::regex_search: the match at the leftmost position that has one
RECURSIVE UrlSearch(_, _)
UrlSearch(s, i) ==
    IF i > Len(s) THEN UrlMatchAt(s, i)
    ELSE IF UrlMatchAt(s, i).matched THEN UrlMatchAt(s, i)
    ELSE UrlSearch(s, i + 1)

UrlOk(u)   == [ok |-> TRUE, url |-> u, err |-> NoError]
UrlFail(e) == [ok |-> FALSE, url |-> <<>>, err |-> e]

\* a slip: the API-host shortcut is missing
to_github_api_url_noshortcut(url) ==
    LET m == UrlSearch(url, 1)
        repo == IF EndsWith(m.m2, DotGit)
                THEN SubSeq(m.m2, 1, Len(m.m2) - 4) ELSE m.m2
    IN IF ~m.matched THEN UrlFail(RuntimeError("Invalid GitHub URL: ", url))
       ELSE UrlOk(ApiPrefix \o m.m1 \o <<"/">> \o repo \o ApiSuffix)

\* a slip: the .git suffix is kept
to_github_api_url_keepgit(url) ==
    LET m == UrlSearch(url, 1)
    IN IF Contains(url, ApiHost) THEN UrlOk(url)
       ELSE IF ~m.matched
            THEN UrlFail(RuntimeError("Invalid GitHub URL: ", url))
       ELSE UrlOk(ApiPrefix \o m.m1 \o <<"/">> \o m.m2 \o ApiSuffix)

\* a slip: a reference that does not match is passed on as it is
to_github_api_url_nothrow(url) ==
    LET m == UrlSearch(url, 1)
        repo == IF EndsWith(m.m2, DotGit)
                THEN SubSeq(m.m2, 1, Len(m.m2) - 4) ELSE m.m2
    IN IF Contains(url, ApiHost) THEN UrlOk(url)
       ELSE IF ~m.matched THEN UrlOk(url)
       ELSE UrlOk(ApiPrefix \o m.m1 \o <<"/">> \o repo \o ApiSuffix)

\* inline std::string to_github_api_url(std::string_view url)
to_github_api_url(url) ==
    LET m == UrlSearch(url, 1)
        repo == IF EndsWith(m.m2, DotGit)
                THEN SubSeq(m.m2, 1, Len(m.m2) - 4) ELSE m.m2
    IN IF Contains(url, ApiHost) THEN UrlOk(url)
       ELSE IF ~m.matched
            THEN UrlFail(RuntimeError("Invalid GitHub URL: ", url))
       ELSE UrlOk(ApiPrefix \o m.m1 \o <<"/">> \o repo \o ApiSuffix)

----------------------------------------------------------------------------
(* Inputs of the SemVer::parse and comparison runs *)

\* the component values callers write: small ones, a three-digit one, INT_MAX
ParseNums == (0..MaxNum) \cup {100, INT_MAX}

VPrefixes == {<<>>, <<"v">>, <<"V">>}

\* "M.N" and "M.N.P" as a caller writes them
RenderMN(pfx, M, N)     == pfx \o ToDigits(M) \o <<".">> \o ToDigits(N)
RenderMNP(pfx, M, N, P) == RenderMN(pfx, M, N) \o <<".">> \o ToDigits(P)

NotAVersion == <<"n","o","t","-","a","-","v","e","r","s","i","o","n">>
ReleaseStable == <<"R","e","l","e","a","s","e"," ","v","2",".","0"," ",
                   "(","s","t","a","b","l","e",")">>
IntMaxPlus1 == <<"2","1","4","7","4","8","3","6","4","8">>
ElevenNines == <<"9","9","9","9","9","9","9","9","9","9","9">>

\* texts that are not plain M.N / M.N.P
OtherTexts ==
    { <<>>, NotAVersion, ReleaseStable, <<"1">>, <<"1",".">>, <<"v",".","2">>,
      <<"1",".","x",".","2",".","3">>, <<"v","v","1",".","2">>,
      <<"0","1",".","0","0","2",".","3">>, <<"1",".","2",".","3",".","4">>,
      <<"1",".","2","-","r","c",".","5">>, <<"x","1",".","2",".">>,
      IntMaxPlus1 \o <<".","0">>, <<"1",".">> \o IntMaxPlus1,
      <<"1",".","2",".">> \o ElevenNines, <<"v">> \o ElevenNines \o <<".","1">> }

\* texts whose matched digits do not fit the int fields
OverflowTexts ==
    { IntMaxPlus1 \o <<".","0">>, <<"1",".">> \o IntMaxPlus1,
      <<"1",".","2",".">> \o ElevenNines, <<"v">> \o ElevenNines \o <<".","1">> }

\* a version written inside other text: what stands before holds no
\* version pattern and what follows does not continue the version
EmbNums   == {0, 7, 12}
EmbLeads  == { <<"R","e","l","e","a","s","e"," ">>, <<"x">>,
               <<"1",".","x",".">>, <<"9"," ">>, <<"v","v">>, <<"V">> }
EmbTrails == { <<>>, <<" ","(","s","t","a","b","l","e",")">>,
               <<"-","r","c",".","5">>, <<".","x">>,
               <<" ","3",".","4",".","5">> }

EmbeddedInputs ==
    { [form |-> "embMN", pfx |-> x[2], M |-> x[3], N |-> x[4], P |-> 0,
       text |-> x[1] \o RenderMN(x[2], x[3], x[4]) \o x[5]] :
         x \in EmbLeads \X {<<>>, <<"v">>} \X EmbNums \X EmbNums \X EmbTrails }
    \cup
    { [form |-> "embMNP", pfx |-> x[2], M |-> x[3], N |-> x[4], P |-> 3,
       text |-> x[1] \o RenderMNP(x[2], x[3], x[4], 3) \o x[5]] :
         x \in EmbLeads \X {<<>>, <<"v">>} \X EmbNums \X EmbNums
               \X (EmbTrails \cup {<<".","4">>}) }

ParseInputs ==
    { [form |-> "MN", pfx |-> p, M |-> m, N |-> n, P |-> 0,
       text |-> RenderMN(p, m, n)] :
         p \in VPrefixes, m \in ParseNums, n \in ParseNums }
    \cup
    { [form |-> "MNP", pfx |-> x[1], M |-> x[2], N |-> x[3], P |-> x[4],
       text |-> RenderMNP(x[1], x[2], x[3], x[4])] :
         x \in VPrefixes \X ParseNums \X ParseNums \X ParseNums }
    \cup
    { [form |-> "other", pfx |-> <<>>, M |-> 0, N |-> 0, P |-> 0,
       text |-> t] : t \in OtherTexts }
    \cup EmbeddedInputs

NoParse == ParseFail(NoError)

IdleParse ==
    /\ vin = [form |-> "other", pfx |-> <<>>, M |-> 0, N |-> 0, P |-> 0,
              text |-> <<>>]
    /\ vout = NoParse
    /\ ppc = "idle"

CmpNums == 0..MaxCmp
CmpVersions == { SemVer(x[1], x[2], x[3]) : x \in CmpNums \X CmpNums \X CmpNums }

NoCmp == [lt_ab |-> FALSE, gt_ab |-> FALSE, eq_ab |-> FALSE, le_ab |-> FALSE,
          ge_ab |-> FALSE, ne_ab |-> FALSE, lt_bc |-> FALSE, lt_ac |-> FALSE]

IdleCmp ==
    /\ cin = <<>>
    /\ cver = <<>>
    /\ cres = NoCmp
    /\ cpc = "idle"

----------------------------------------------------------------------------
(* SpecParse: SemVer::parse applied to one text *)

ParseInit ==
    /\ vin \in ParseInputs
    /\ vout = NoParse
    /\ ppc = "init"

\* the call SemVer::parse(text)
Parse ==
    /\ ppc = "init"
    /\ vout' = SemVer_parse(vin.text)
    /\ ppc' = "parsed"
    /\ UNCHANGED <<vin, cmpVars, urlVars, checkVars, hostVars>>

----------------------------------------------------------------------------
(* SpecCmp: three versions are parsed and compared *)

CmpInit ==
    /\ cin \in { <<RenderMNP(<<>>, a.major, a.minor, a.patch),
                   RenderMNP(<<>>, b.major, b.minor, b.patch),
                   RenderMNP(<<>>, c.major, c.minor, c.patch)>> :
                   a \in CmpVersions, b \in CmpVersions, c \in CmpVersions }
    /\ cver = <<>>
    /\ cres = NoCmp
    /\ cpc = "init"

\* auto v = SemVer::parse(...) for the three texts
CmpParse ==
    /\ cpc = "init"
    /\ \A i \in 1..3 : SemVer_parse(cin[i]).ok
    /\ cver' = [i \in 1..3 |-> SemVer_parse(cin[i]).ver]
    /\ cpc' = "parsed"
    /\ UNCHANGED <<cin, cres, parseVars, urlVars, checkVars, hostVars>>

\* the relational operators applied to the parsed versions
Compare ==
    /\ cpc = "parsed"
    /\ cres' = [lt_ab |-> SemVer_lt(cver[1], cver[2]),
                gt_ab |-> SemVer_gt(cver[1], cver[2]),
                eq_ab |-> SemVer_eq(cver[1], cver[2]),
                le_ab |-> SemVer_le(cver[1], cver[2]),
                ge_ab |-> SemVer_ge(cver[1], cver[2]),
                ne_ab |-> SemVer_ne(cver[1], cver[2]),
                lt_bc |-> SemVer_lt(cver[2], cver[3]),
                lt_ac |-> SemVer_lt(cver[1], cver[3])]
    /\ cpc' = "compared"
    /\ UNCHANGED <<cin, cver, parseVars, urlVars, checkVars, hostVars>>

----------------------------------------------------------------------------
(* Inputs of the to_github_api_url runs *)

Owners == { <<"o">>, <<"p","q">> }
Repos  == { <<"r">>, <<"s","-","2">>, DotGit, ApiHost }

HttpGithub == <<"h","t","t","p",":","/","/">> \o GithubCom \o <<"/">>
NotGithub  == Https \o <<"n","o","t","-","g","i","t","h","u","b",".",
                         "e","x","a","m","p","l","e","/">>

UrlForms == {"web", "webgit", "api", "apirepo", "lead", "extra", "http",
             "otherhost", "noowner", "norepo", "norepo2", "empty"}

\* the reference text of each form for the owner o and repo r it names
RenderRef(form, o, r) ==
    CASE form = "web"       -> WebPrefix \o o \o <<"/">> \o r
      [] form = "webgit"    -> WebPrefix \o o \o <<"/">> \o r \o DotGit
      [] form = "api"       -> ApiPrefix \o o \o <<"/">> \o r \o ApiSuffix
      [] form = "apirepo"   -> ApiPrefix \o o \o <<"/">> \o r
      [] form = "lead"      -> <<"s","e","e"," ">> \o WebPrefix \o o \o <<"/">> \o r
      [] form = "extra"     -> WebPrefix \o o \o <<"/">> \o r \o <<"/","t","r","e","e">>
      [] form = "http"      -> HttpGithub \o o \o <<"/">> \o r
      [] form = "otherhost" -> NotGithub \o o \o <<"/">> \o r
      [] form = "noowner"   -> WebPrefix \o <<"/">> \o r
      [] form = "norepo"    -> WebPrefix \o o
      [] form = "norepo2"   -> WebPrefix \o o \o <<"/">>
      [] form = "empty"     -> <<>>

Ref(form, o, r) == [form |-> form, owner |-> o, repo |-> r,
                    text |-> RenderRef(form, o, r)]

UrlInputs == { Ref(x[1], x[2], x[3]) : x \in UrlForms \X Owners \X Repos }

NoUrl == UrlFail(NoError)

IdleUrl ==
    /\ uin = <<>>
    /\ uout = <<>>
    /\ uout2 = NoUrl
    /\ upc = [a |-> "idle", b |-> "idle", again |-> "idle"]

----------------------------------------------------------------------------
(* SpecUrl: to_github_api_url applied to two references, and to an output *)

UrlInit ==
    /\ uin \in UrlInputs \X UrlInputs
    /\ uout = <<NoUrl, NoUrl>>
    /\ uout2 = NoUrl
    /\ upc = [a |-> "init", b |-> "init", again |-> "init"]

\* to_github_api_url(first reference)
NormalizeA ==
    /\ upc.a = "init"
    /\ uout' = [uout EXCEPT ![1] = to_github_api_url(uin[1].text)]
    /\ upc' = [upc EXCEPT !.a = "done"]
    /\ UNCHANGED <<uin, uout2, parseVars, cmpVars, checkVars, hostVars>>

\* to_github_api_url(second reference)
NormalizeB ==
    /\ upc.a = "done"
    /\ upc.b = "init"
    /\ uout' = [uout EXCEPT ![2] = to_github_api_url(uin[2].text)]
    /\ upc' = [upc EXCEPT !.b = "done"]
    /\ UNCHANGED <<uin, uout2, parseVars, cmpVars, checkVars, hostVars>>

\* to_github_api_url(to_github_api_url(first reference))
NormalizeAgain ==
    /\ upc.a = "done"
    /\ upc.again = "init"
    /\ uout[1].ok
    /\ uout2' = to_github_api_url(uout[1].url)
    /\ upc' = [upc EXCEPT !.again = "done"]
    /\ UNCHANGED <<uin, uout, parseVars, cmpVars, checkVars, hostVars>>

----------------------------------------------------------------------------
(* The response body and nlohmann::json *)

\* a field of the response document
Absent    == [present |-> FALSE, isString |-> FALSE, str |-> <<>>]
NonString == [present |-> TRUE,  isString |-> FALSE, str |-> <<>>]
Str(t)    == [present |-> TRUE,  isString |-> TRUE,  str |-> t]

NoBody == [kind |-> "none", tag_name |-> Absent, message |-> Absent]
NoJson == [isObject |-> FALSE, tag_name |-> Absent, message |-> Absent]

\* nlohmann::json::parse(jsonText): the document, or json::parse_error
json_parse(b) ==
    IF b.kind = "malformed"
    THEN [ok |-> FALSE, doc |-> NoJson, err |-> JsonParseError]
    ELSE [ok |-> TRUE,
          doc |-> [isObject |-> (b.kind = "object"),
                   tag_name |-> IF b.kind = "object" THEN b.tag_name ELSE Absent,
                   message  |-> IF b.kind = "object" THEN b.message ELSE Absent],
          err |-> NoError]

\* json.contains(key): false for anything that is not an object
json_contains(j, f) == j.isObject /\ f.present

\* a slip: the message field of the response is not looked at
tag_check_nomessage(j) ==
    IF ~json_contains(j, j.tag_name) \/ ~j.tag_name.isString
    THEN RuntimeError("GitHub API returned no valid tag_name", <<>>)
    ELSE NoError

\* the test on tag_name and message; NoError when tag_name is a string
tag_check(j) ==
    IF ~json_contains(j, j.tag_name) \/ ~j.tag_name.isString
    THEN IF json_contains(j, j.message) /\ j.message.isString
         THEN RuntimeError("GitHub API error: ", j.message.str)
         ELSE RuntimeError("GitHub API returned no valid tag_name", <<>>)
    ELSE NoError

----------------------------------------------------------------------------
(* UpdateInfo and the outcome of a call *)

\* a version written back from its components
FormatSemVer(v) ==
    ToDigits(v.major) \o <<".">> \o ToDigits(v.minor) \o <<".">> \o ToDigits(v.patch)

\* a slip: the tag is rebuilt from the parsed version
UpdateInfo_rebuilt(r, l, tag) ==
    [hasUpdate |-> SemVer_gt(r, l), latestVersion |-> FormatSemVer(r)]

\* a slip: remote >= local
UpdateInfo_ge(r, l, tag) ==
    [hasUpdate |-> SemVer_ge(r, l), latestVersion |-> tag]

\* return { remote > local, latest };
UpdateInfo(r, l, tag) ==
    [hasUpdate |-> SemVer_gt(r, l), latestVersion |-> tag]

NoInfo == [hasUpdate |-> FALSE, latestVersion |-> <<>>]
NoResult  == [kind |-> "none", info |-> NoInfo, err |-> NoError]
Returned(i) == [kind |-> "value", info |-> i, err |-> NoError]
Threw(e)    == [kind |-> "exception", info |-> NoInfo, err |-> e]

----------------------------------------------------------------------------
(* Inputs of a check_github_update call *)

CheckRefs ==
    { RenderRef(f, <<"o">>, <<"r">>) :
        f \in {"web", "webgit", "api", "extra", "http", "otherhost", "norepo"} }
    \cup { RenderRef("web", <<"o">>, ApiHost) }

CheckLocals ==
    { <<"1",".","0",".","0">>, <<"1",".","1",".","0">>, <<"v","1",".","0">>,
      <<"2",".","0",".","0">>, <<"1",".","0",".","1">>,
      NotAVersion, <<>>, ReleaseStable, IntMaxPlus1 \o <<".","0">> }

CheckTags ==
    { <<"1",".","0",".","0">>, <<"1",".","1",".","0">>,
      <<"v","1",".","1",".","0">>, <<"1",".","0">>, <<"0",".","9",".","9">>,
      <<"l","a","t","e","s","t">>,
      <<"v","2",".","0",".","1","-","b","e","t","a">>,
      <<"1",".">> \o ElevenNines }

CheckMessages ==
    { <<"N","o","t"," ","F","o","u","n","d">>,
      <<"r","a","t","e"," ","l","i","m","i","t">> }

TagFields == {Absent, NonString} \cup { Str(t) : t \in CheckTags }
MsgFields == {Absent, NonString} \cup { Str(t) : t \in CheckMessages }

\* the response texts the transport may deliver
Bodies ==
    { [kind |-> "malformed", tag_name |-> Absent, message |-> Absent],
      [kind |-> "array", tag_name |-> Absent, message |-> Absent] }
    \cup { [kind |-> "object", tag_name |-> t, message |-> m] :
             t \in TagFields, m \in MsgFields }

IdleCheck ==
    /\ repoUrl = <<>>
    /\ localVersion = <<>>
    /\ pc = "idle"
    /\ apiUrl = <<>>
    /\ res = "none"
    /\ body = NoBody
    /\ json = NoJson
    /\ latest = <<>>
    /\ local = SemVer(0, 0, 0)
    /\ remote = SemVer(0, 0, 0)
    /\ fetchCount = 0
    /\ result = NoResult

----------------------------------------------------------------------------
(* The callers of check_github_update: main and the async wrapper *)

NoFuture == [state |-> "none", outcome |-> NoResult]

IdleCli ==
    /\ argc = 0
    /\ argv = <<>>
    /\ mpc = "idle"
    /\ exitCode = -1
    /\ out = <<>>
    /\ errOut = <<>>

IdleAsync ==
    /\ aargs = <<>>
    /\ apc = "idle"
    /\ future = NoFuture
    /\ got = NoResult

IdleConc == inv = <<>>

IdleHost == IdleCli /\ IdleAsync /\ IdleConc

----------------------------------------------------------------------------
(* Spec: one call check_github_update(repoUrl, localVersion) *)

CheckInit ==
    /\ repoUrl \in CheckRefs
    /\ localVersion \in CheckLocals
    /\ pc = "normalize"
    /\ apiUrl = <<>>
    /\ res = "none"
    /\ body = NoBody
    /\ json = NoJson
    /\ latest = <<>>
    /\ local = SemVer(0, 0, 0)
    /\ remote = SemVer(0, 0, 0)
    /\ fetchCount = 0
    /\ result = NoResult

\* std::string apiUrl = to_github_api_url(repoUrl);
Normalize ==
    /\ pc = "normalize"
    /\ LET r == to_github_api_url(repoUrl)
       IN IF r.ok
          THEN /\ apiUrl' = r.url
               /\ pc' = "http_get"
               /\ UNCHANGED result
          ELSE /\ result' = Threw(r.err)
               /\ pc' = "threw"
               /\ UNCHANGED apiUrl
    /\ UNCHANGED <<repoUrl, localVersion, res, body, json, latest, local,
                   remote, fetchCount, parseVars, cmpVars, urlVars,
                   hostVars>>

\* http_get(apiUrl): curl_easy_init returns null
HttpGetInitFailed ==
    /\ pc = "http_get"
    /\ fetchCount' = fetchCount + 1
    /\ res' = "init_failed"
    /\ result' = Threw(RuntimeError("curl init failed", <<>>))
    /\ pc' = "threw"
    /\ UNCHANGED <<repoUrl, localVersion, apiUrl, body, json, latest, local,
                   remote, parseVars, cmpVars, urlVars,
                   hostVars>>

\* a slip: a failed transfer is tried once more before giving up
HttpGetFailed_retry ==
    /\ pc = "http_get"
    /\ fetchCount' = fetchCount + 1
    /\ res' = "failed"
    /\ IF fetchCount = 0
       THEN UNCHANGED <<pc, result>>
       ELSE /\ result' = Threw(RuntimeError("HTTP request failed", <<>>))
            /\ pc' = "threw"
    /\ UNCHANGED <<repoUrl, localVersion, apiUrl, body, json, latest, local,
                   remote, parseVars, cmpVars, urlVars, hostVars>>

\* http_get(apiUrl): curl_easy_perform returns something else than CURLE_OK
HttpGetFailed ==
    /\ pc = "http_get"
    /\ fetchCount' = fetchCount + 1
    /\ res' = "failed"
    /\ result' = Threw(RuntimeError("HTTP request failed", <<>>))
    /\ pc' = "threw"
    /\ UNCHANGED <<repoUrl, localVersion, apiUrl, body, json, latest, local,
                   remote, parseVars, cmpVars, urlVars,
                   hostVars>>

\* std::string jsonText = http_get(apiUrl): CURLE_OK, the buffer is returned
HttpGetOk ==
    /\ pc = "http_get"
    /\ fetchCount' = fetchCount + 1
    /\ res' = "CURLE_OK"
    /\ \E b \in Bodies : body' = b
    /\ pc' = "json_parse"
    /\ UNCHANGED <<repoUrl, localVersion, apiUrl, json, latest, local,
                   remote, result, parseVars, cmpVars, urlVars,
                   hostVars>>

\* auto json = nlohmann::json::parse(jsonText);
JsonParse ==
    /\ pc = "json_parse"
    /\ LET r == json_parse(body)
       IN IF r.ok
          THEN /\ json' = r.doc
               /\ pc' = "tag_check"
               /\ UNCHANGED result
          ELSE /\ result' = Threw(r.err)
               /\ pc' = "threw"
               /\ UNCHANGED json
    /\ UNCHANGED <<repoUrl, localVersion, apiUrl, res, body, latest, local,
                   remote, fetchCount, parseVars, cmpVars, urlVars,
                   hostVars>>

\* the test on tag_name / message, then latest = json["tag_name"]
TagCheck ==
    /\ pc = "tag_check"
    /\ LET e == tag_check(json)
       IN IF e = NoError
          THEN /\ latest' = json.tag_name.str
               /\ pc' = "parse_local"
               /\ UNCHANGED result
          ELSE /\ result' = Threw(e)
               /\ pc' = "threw"
               /\ UNCHANGED latest
    /\ UNCHANGED <<repoUrl, localVersion, apiUrl, res, body, json, local,
                   remote, fetchCount, parseVars, cmpVars, urlVars,
                   hostVars>>

\* SemVer local = SemVer::parse(localVersion);
ParseLocal ==
    /\ pc = "parse_local"
    /\ LET r == SemVer_parse(localVersion)
       IN IF r.ok
          THEN /\ local' = r.ver
               /\ pc' = "parse_remote"
               /\ UNCHANGED result
          ELSE /\ result' = Threw(r.err)
               /\ pc' = "threw"
               /\ UNCHANGED local
    /\ UNCHANGED <<repoUrl, localVersion, apiUrl, res, body, json, latest,
                   remote, fetchCount, parseVars, cmpVars, urlVars,
                   hostVars>>

\* SemVer remote = SemVer::parse(latest);
ParseRemote ==
    /\ pc = "parse_remote"
    /\ LET r == SemVer_parse(latest)
       IN IF r.ok
          THEN /\ remote' = r.ver
               /\ pc' = "return"
               /\ UNCHANGED result
          ELSE /\ result' = Threw(r.err)
               /\ pc' = "threw"
               /\ UNCHANGED remote
    /\ UNCHANGED <<repoUrl, localVersion, apiUrl, res, body, json, latest,
                   local, fetchCount, parseVars, cmpVars, urlVars,
                   hostVars>>

\* return { remote > local, latest };
Return ==
    /\ pc = "return"
    /\ result' = Returned(UpdateInfo(remote, local, latest))
    /\ pc' = "done"
    /\ UNCHANGED <<repoUrl, localVersion, apiUrl, res, body, json, latest,
                   local, remote, fetchCount, parseVars, cmpVars, urlVars,
                   hostVars>>

----------------------------------------------------------------------------
(* SpecCli: int main(int argc, char** argv) of gh-update-checker.cpp *)

\* the command lines tried: 0 to 3 positional arguments
ExtraArg == <<"-","-","x">>

CliArgvs ==
    { <<>> }
    \cup { <<r>> : r \in CheckRefs }
    \cup { <<r, l>> : r \in CheckRefs, l \in CheckLocals }
    \cup { <<r, l, ExtraArg>> : r \in CheckRefs, l \in CheckLocals }

CliInit ==
    /\ argv \in CliArgvs
    /\ argc = Len(argv) + 1
    /\ mpc = "main"
    /\ exitCode = -1
    /\ out = <<>>
    /\ errOut = <<>>

UsageText ==
    << <<"Usage: gh-update-checker <repo-api-url> <local-version>">>,
       <<"Example:">>,
       <<"  gh-update-checker https://api.github.com/repos/nlohmann/json/releases/latest 3.11.2">> >>

\* a slip: the two exit codes of a completed check are exchanged
exit_code_swapped(info) == IF info.hasUpdate THEN 0 ELSE 2

\* return info.hasUpdate ? 2 : 0;
exit_code(info) == IF info.hasUpdate THEN 2 ELSE 0

\* the three lines written after a completed check
result_lines(loc, info) ==
    << <<"Local version:  ", loc>>,
       <<"Remote version: ", info.latestVersion>>,
       <<"Update:         ", IF info.hasUpdate THEN "YES" ELSE "NO">> >>

\* the exception types of the model that derive from std::exception
StdExceptions ==
    {"std::runtime_error", "std::out_of_range", "nlohmann::json::parse_error"}

\* a slip: the handler is written for std::runtime_error only
catches_runtime_error_only(e) == e.type = "std::runtime_error"

\* catch (const std::exception& e)
catches(e) == e.type \in StdExceptions

\* if (argc < 3) { usage to std::cerr; return 1; }
MainUsage ==
    /\ mpc = "main"
    /\ argc < 3
    /\ errOut' = UsageText
    /\ exitCode' = 1
    /\ mpc' = "exited"
    /\ UNCHANGED <<argc, argv, out, asyncVars, concVars, checkVars,
                   parseVars, cmpVars, urlVars>>

\* repo = argv[1]; local = argv[2]; the call check_github_update(repo, local)
MainCall ==
    /\ mpc = "main"
    /\ argc >= 3
    /\ pc = "idle"
    /\ repoUrl' = argv[1]
    /\ localVersion' = argv[2]
    /\ pc' = "normalize"
    /\ mpc' = "calling"
    /\ UNCHANGED <<argc, argv, exitCode, out, errOut, asyncVars, concVars, apiUrl, res,
                   body, json, latest, local, remote, fetchCount, result,
                   parseVars, cmpVars, urlVars>>

\* the three std::cout lines and return info.hasUpdate ? 2 : 0
MainPrint ==
    /\ mpc = "calling"
    /\ pc = "done"
    /\ out' = result_lines(argv[2], result.info)
    /\ exitCode' = exit_code(result.info)
    /\ mpc' = "exited"
    /\ UNCHANGED <<argc, argv, errOut, asyncVars, concVars, checkVars,
                   parseVars, cmpVars, urlVars>>

\* catch (const std::exception& e): "Error: " line, return 3; an exception
\* of another type leaves main and ends the program in std::terminate
MainCatch ==
    /\ mpc = "calling"
    /\ pc = "threw"
    /\ IF catches(result.err)
       THEN /\ errOut' = << <<"Error: ", result.err.what, result.err.arg>> >>
            /\ exitCode' = 3
            /\ mpc' = "exited"
       ELSE /\ mpc' = "terminated"
            /\ UNCHANGED <<errOut, exitCode>>
    /\ UNCHANGED <<argc, argv, out, asyncVars, concVars, checkVars,
                   parseVars, cmpVars, urlVars>>

----------------------------------------------------------------------------
(* SpecAsync: check_github_update_async and the caller of future.get() *)

AsyncInit ==
    /\ aargs \in CheckRefs \X CheckLocals
    /\ apc = "start"
    /\ future = NoFuture
    /\ got = NoResult

\* a slip: a stored exception loses its type and text
shared_state_plain(r) ==
    IF r.kind = "exception"
    THEN Threw([type |-> "std::exception", what |-> "", arg |-> <<>>])
    ELSE r

\* what the task leaves in the shared state: the value or the exception
shared_state(r) == r

\* std::async(std::launch::async, [repoUrl, localVersion] {...}): the lambda
\* holds copies of the two strings and starts running on its own thread
AsyncStart ==
    /\ apc = "start"
    /\ pc = "idle"
    /\ repoUrl' = aargs[1]
    /\ localVersion' = aargs[2]
    /\ pc' = "normalize"
    /\ future' = [state |-> "pending", outcome |-> NoResult]
    /\ apc' = "waiting"
    /\ UNCHANGED <<aargs, got, cliVars, concVars, apiUrl, res, body, json, latest,
                   local, remote, fetchCount, result, parseVars, cmpVars, urlVars>>

\* a slip: only a returned value is stored, a throwing task leaves the
\* future pending
TaskFinish_value_only ==
    /\ future.state = "pending"
    /\ pc = "done"
    /\ future' = [state |-> "ready", outcome |-> shared_state(result)]
    /\ UNCHANGED <<aargs, apc, got, cliVars, concVars, checkVars,
                   parseVars, cmpVars, urlVars>>

\* the lambda returns or throws: the outcome is put into the shared state
TaskFinish ==
    /\ future.state = "pending"
    /\ pc \in {"done", "threw"}
    /\ future' = [state |-> "ready", outcome |-> shared_state(result)]
    /\ UNCHANGED <<aargs, apc, got, cliVars, concVars, checkVars,
                   parseVars, cmpVars, urlVars>>

\* future.get(): blocks until ready, then returns the value or rethrows
FutureGet ==
    /\ apc = "waiting"
    /\ future.state = "ready"
    /\ got' = future.outcome
    /\ future' = [state |-> "retrieved", outcome |-> NoResult]
    /\ apc' = "got"
    /\ UNCHANGED <<aargs, cliVars, concVars, checkVars,
                   parseVars, cmpVars, urlVars>>

----------------------------------------------------------------------------
(* SpecConc: several check_github_update calls, each on its own thread *)

\* what the transport hands to one http_get call
Outcome(r, b) == [res |-> r, body |-> b]

\* check_github_update as one function of its arguments and of what its
\* own http_get call delivered
check_github_update(ref, loc, o) ==
    LET u == to_github_api_url(ref)
        j == json_parse(o.body)
        e == tag_check(j.doc)
        l == SemVer_parse(loc)
        r == SemVer_parse(j.doc.tag_name.str)
    IN IF ~u.ok THEN Threw(u.err)
       ELSE IF o.res = "init_failed"
            THEN Threw(RuntimeError("curl init failed", <<>>))
       ELSE IF o.res # "CURLE_OK"
            THEN Threw(RuntimeError("HTTP request failed", <<>>))
       ELSE IF ~j.ok THEN Threw(j.err)
       ELSE IF e # NoError THEN Threw(e)
       ELSE IF ~l.ok THEN Threw(l.err)
       ELSE IF ~r.ok THEN Threw(r.err)
       ELSE Returned(UpdateInfo(r.ver, l.ver, j.doc.tag_name.str))

Invs == 1..NumInv

ConcRefs == { RenderRef("web", <<"o">>, <<"r">>),
              RenderRef("otherhost", <<"o">>, <<"r">>) }
ConcLocals == { <<"1",".","0",".","0">>, NotAVersion }
ConcOutcomes ==
    { Outcome("failed", NoBody),
      Outcome("CURLE_OK",
              [kind |-> "malformed", tag_name |-> Absent, message |-> Absent]),
      Outcome("CURLE_OK",
              [kind |-> "object", tag_name |-> Str(<<"1",".","1",".","0">>),
               message |-> Absent]),
      Outcome("CURLE_OK",
              [kind |-> "object", tag_name |-> Absent,
               message |-> Str(<<"N","o","t"," ","F","o","u","n","d">>)]) }

\* the frame of one invocation before it runs
Frame(ref, loc) ==
    [repoUrl |-> ref, localVersion |-> loc, pc |-> "idle", apiUrl |-> <<>>,
     res |-> "none", body |-> NoBody, json |-> NoJson, latest |-> <<>>,
     local |-> SemVer(0, 0, 0), remote |-> SemVer(0, 0, 0),
     fetchCount |-> 0, result |-> NoResult]

ConcInit ==
    inv \in [Invs -> { Frame(r, l) : r \in ConcRefs, l \in ConcLocals }]

\* http_get of one invocation, given what its transfer delivered
FetchStep(c, o) ==
    IF o.res = "CURLE_OK"
    THEN [c EXCEPT !.fetchCount = @ + 1, !.res = o.res, !.body = o.body,
                   !.pc = "json_parse"]
    ELSE [c EXCEPT !.fetchCount = @ + 1, !.res = o.res, !.pc = "threw",
                   !.result = Threw(RuntimeError(
                       IF o.res = "init_failed" THEN "curl init failed"
                       ELSE "HTTP request failed", <<>>))]

\* one statement of check_github_update other than the http_get call
LocalStep(c) ==
    CASE c.pc = "normalize" ->
           LET r == to_github_api_url(c.repoUrl)
           IN IF r.ok THEN [c EXCEPT !.apiUrl = r.url, !.pc = "http_get"]
              ELSE [c EXCEPT !.result = Threw(r.err), !.pc = "threw"]
      [] c.pc = "json_parse" ->
           LET r == json_parse(c.body)
           IN IF r.ok THEN [c EXCEPT !.json = r.doc, !.pc = "tag_check"]
              ELSE [c EXCEPT !.result = Threw(r.err), !.pc = "threw"]
      [] c.pc = "tag_check" ->
           LET e == tag_check(c.json)
           IN IF e = NoError
              THEN [c EXCEPT !.latest = c.json.tag_name.str,
                             !.pc = "parse_local"]
              ELSE [c EXCEPT !.result = Threw(e), !.pc = "threw"]
      [] c.pc = "parse_local" ->
           LET r == SemVer_parse(c.localVersion)
           IN IF r.ok THEN [c EXCEPT !.local = r.ver, !.pc = "parse_remote"]
              ELSE [c EXCEPT !.result = Threw(r.err), !.pc = "threw"]
      [] c.pc = "parse_remote" ->
           LET r == SemVer_parse(c.latest)
           IN IF r.ok THEN [c EXCEPT !.remote = r.ver, !.pc = "return"]
              ELSE [c EXCEPT !.result = Threw(r.err), !.pc = "threw"]
      [] c.pc = "return" ->
           [c EXCEPT !.result = Returned(UpdateInfo(c.remote, c.local, c.latest)),
                     !.pc = "done"]

\* the thread of invocation i starts running the call
ConcStart(i) ==
    /\ inv[i].pc = "idle"
    /\ inv' = [inv EXCEPT ![i].pc = "normalize"]
    /\ UNCHANGED <<cliVars, asyncVars, checkVars, parseVars, cmpVars, urlVars>>

\* a slip: a response already fetched for the same URL is used again
ConcFetch_coalesced(i) ==
    /\ inv[i].pc = "http_get"
    /\ IF \E j \in Invs : /\ j # i
                          /\ inv[j].apiUrl = inv[i].apiUrl
                          /\ inv[j].res = "CURLE_OK"
       THEN \E j \in Invs :
               /\ j # i
               /\ inv[j].apiUrl = inv[i].apiUrl
               /\ inv[j].res = "CURLE_OK"
               /\ inv' = [inv EXCEPT ![i].res = "CURLE_OK",
                                     ![i].body = inv[j].body,
                                     ![i].pc = "json_parse"]
       ELSE \E o \in ConcOutcomes :
               inv' = [inv EXCEPT ![i] = FetchStep(inv[i], o)]
    /\ UNCHANGED <<cliVars, asyncVars, checkVars, parseVars, cmpVars, urlVars>>

\* invocation i performs its http_get: own handle, own buffer
ConcFetch(i) ==
    /\ inv[i].pc = "http_get"
    /\ \E o \in ConcOutcomes :
          inv' = [inv EXCEPT ![i] = FetchStep(inv[i], o)]
    /\ UNCHANGED <<cliVars, asyncVars, checkVars, parseVars, cmpVars, urlVars>>

\* invocation i executes its next statement on its own locals
ConcStep(i) ==
    /\ inv[i].pc \in {"normalize", "json_parse", "tag_check", "parse_local",
                      "parse_remote", "return"}
    /\ inv' = [inv EXCEPT ![i] = LocalStep(inv[i])]
    /\ UNCHANGED <<cliVars, asyncVars, checkVars, parseVars, cmpVars, urlVars>>

----------------------------------------------------------------------------
(* Specifications *)

Init == IdleParse /\ IdleCmp /\ IdleUrl /\ CheckInit /\ IdleHost

Next ==
    \/ Normalize
    \/ HttpGetInitFailed
    \/ HttpGetFailed
    \/ HttpGetOk
    \/ JsonParse
    \/ TagCheck
    \/ ParseLocal
    \/ ParseRemote
    \/ Return

Spec == Init /\ [][Next]_vars

InitParse == ParseInit /\ IdleCmp /\ IdleUrl /\ IdleCheck /\ IdleHost
NextParse == Parse
SpecParse == InitParse /\ [][NextParse]_vars

InitCmp == IdleParse /\ CmpInit /\ IdleUrl /\ IdleCheck /\ IdleHost
NextCmp == CmpParse \/ Compare
SpecCmp == InitCmp /\ [][NextCmp]_vars

InitUrl == IdleParse /\ IdleCmp /\ UrlInit /\ IdleCheck /\ IdleHost
NextUrl == NormalizeA \/ NormalizeB \/ NormalizeAgain
SpecUrl == InitUrl /\ [][NextUrl]_vars

CheckSteps ==
    \/ Normalize
    \/ HttpGetInitFailed
    \/ HttpGetFailed
    \/ HttpGetOk
    \/ JsonParse
    \/ TagCheck
    \/ ParseLocal
    \/ ParseRemote
    \/ Return

InitCli == IdleParse /\ IdleCmp /\ IdleUrl /\ IdleCheck /\ CliInit /\ IdleAsync /\ IdleConc
NextCli ==
    \/ MainUsage
    \/ MainCall
    \/ CheckSteps
    \/ MainPrint
    \/ MainCatch
SpecCli == InitCli /\ [][NextCli]_vars

InitAsync == IdleParse /\ IdleCmp /\ IdleUrl /\ IdleCheck /\ IdleCli /\ AsyncInit /\ IdleConc
NextAsync ==
    \/ AsyncStart
    \/ CheckSteps
    \/ TaskFinish
    \/ FutureGet
SpecAsync == InitAsync /\ [][NextAsync]_vars

\* the http_get call of the running check, however it comes back
HttpGet == HttpGetInitFailed \/ HttpGetFailed \/ HttpGetOk

\* the statements of the task around the http_get call
TaskSteps ==
    \/ Normalize
    \/ JsonParse
    \/ TagCheck
    \/ ParseLocal
    \/ ParseRemote
    \/ Return

\* the thread std::launch::async starts keeps running its statements, the
\* transfer comes back, and the outcome is put into the shared state; when
\* the caller asks for it is the caller's choice
SpecAsyncFair ==
    /\ InitAsync
    /\ [][NextAsync]_vars
    /\ WF_vars(TaskSteps)
    /\ WF_vars(HttpGet)
    /\ WF_vars(TaskFinish)

InitConc == IdleParse /\ IdleCmp /\ IdleUrl /\ IdleCheck /\ IdleCli /\ IdleAsync
            /\ ConcInit
NextConc ==
    \E i \in Invs :
        \/ ConcStart(i)
        \/ ConcFetch(i)
        \/ ConcStep(i)
SpecConc == InitConc /\ [][NextConc]_vars

----------------------------------------------------------------------------
(* Vocabulary of the properties *)

\* the error kinds of the documentation, read off the exception thrown
ErrKind(e) ==
    CASE e.type = "std::runtime_error" /\ e.what = "Invalid GitHub URL: "
           -> "InvalidRepositoryURL"
      [] e.type = "std::runtime_error" /\ e.what = "Invalid SemVer: "
           -> "InvalidVersionFormat"
      [] e.type = "std::runtime_error"
           /\ e.what \in {"curl init failed", "HTTP request failed"}
           -> "NetworkError"
      [] e.type = "std::runtime_error"
           /\ e.what \in {"GitHub API error: ",
                          "GitHub API returned no valid tag_name"}
           -> "RemoteAPIError"
      [] OTHER -> "other"

\* lexicographic order on (major, minor, patch), written out
LexLess(a, b) ==
    \/ a.major < b.major
    \/ a.major = b.major /\ a.minor < b.minor
    \/ a.major = b.major /\ a.minor = b.minor /\ a.patch < b.patch

\* the text holds digit '.' digit somewhere, i.e. a major.minor pattern
HasVersionPattern(t) ==
    \E i \in 1..Len(t) :
        /\ i + 2 <= Len(t)
        /\ t[i] \in Digits /\ t[i + 1] = "." /\ t[i + 2] \in Digits

\* the text holds https://github.com/<owner>/<repo>, owner and repo non-empty
HasWebShape(t) ==
    \E i \in 1..Len(t) : \E j \in 1..Len(t) :
        /\ OccursAt(t, WebPrefix, i)
        /\ j > i + Len(WebPrefix)
        /\ j + 1 <= Len(t)
        /\ t[j] = "/"
        /\ t[j + 1] # "/"
        /\ \A k \in (i + Len(WebPrefix))..(j - 1) : t[k] # "/"

\* the canonical API URL of an owner and a repo
CanonicalApiUrl(o, r) == ApiPrefix \o o \o <<"/">> \o r \o ApiSuffix

Finished == pc \in {"done", "threw"}

----------------------------------------------------------------------------
(* Properties of check_github_update (Spec) *)

\* C1: whenever check_github_update returns a result, hasUpdate is true
\* exactly when the parsed remote tag is strictly greater than the parsed
\* local version in the lexicographic (major, minor, patch) order; it is
\* false for equal versions and for local greater than remote.
C1_HasUpdateIffRemoteGreater ==
    result.kind = "value" =>
        (result.info.hasUpdate <=>
            LexLess(SemVer_parse(localVersion).ver,
                    SemVer_parse(body.tag_name.str).ver))

\* a result for remote 1.1.0 against local 1.0.0 reports an update
C1_Witness ==
    /\ result.kind = "value"
    /\ result.info.hasUpdate
    /\ localVersion = <<"1",".","0",".","0">>
    /\ body.tag_name.str = <<"1",".","1",".","0">>

\* C2: whenever check_github_update returns a result, latestVersion is the
\* tag_name string of the fetched response exactly as delivered (prefix and
\* surrounding text kept), never a string rebuilt from the parsed version.
C2_LatestIsRawTag ==
    result.kind = "value" => result.info.latestVersion = body.tag_name.str

\* a result for a tag with a 'v' prefix and trailing text
C2_Witness ==
    /\ result.kind = "value"
    /\ body.tag_name.str = <<"v","2",".","0",".","1","-","b","e","t","a">>
    /\ result.info.latestVersion = body.tag_name.str

C9_Claim_NoFetchBeforeLocalParse ==
    (/\ Finished
     /\ ~HasVersionPattern(localVersion)
     /\ (Contains(repoUrl, ApiHost) \/ HasWebShape(repoUrl))) =>
        /\ result.kind = "exception"
        /\ ErrKind(result.err) = "InvalidVersionFormat"
        /\ fetchCount = 0

\* C9 amended: a call with a local version text without a major.minor
\* pattern never returns a result; it ends with the invalid-version-format
\* error naming the local text exactly when the fetch succeeded and the body
\* is a JSON object with a string tag_name, and then exactly one fetch was
\* performed before the local text was parsed; otherwise the earlier failing
\* step reports its own error.
C9_InvalidLocalAfterFetch ==
    (Finished /\ ~HasVersionPattern(localVersion)) =>
        /\ result.kind = "exception"
        /\ (result.err = RuntimeError("Invalid SemVer: ", localVersion)) <=>
              (res = "CURLE_OK" /\ body.kind = "object"
                 /\ body.tag_name.isString)
        /\ ErrKind(result.err) = "InvalidVersionFormat" => fetchCount = 1

\* "not-a-version" rejected after the fetch delivered a parsable tag
C9_Witness ==
    /\ pc = "threw"
    /\ localVersion = NotAVersion
    /\ result.err = RuntimeError("Invalid SemVer: ", NotAVersion)
    /\ fetchCount = 1
    /\ body.tag_name.str = <<"1",".","1",".","0">>

\* C10: when the fetched JSON has no string tag_name and has a string
\* message, the call ends with the remote-API error carrying that message,
\* never with the invalid-version-format error, whatever the local text.
C10_MessageBecomesApiError ==
    (/\ pc \notin {"json_parse", "tag_check"}
     /\ res = "CURLE_OK"
     /\ body.kind = "object"
     /\ ~(body.tag_name.present /\ body.tag_name.isString)
     /\ body.message.present /\ body.message.isString) =>
        /\ pc = "threw"
        /\ result = Threw(RuntimeError("GitHub API error: ", body.message.str))
        /\ ErrKind(result.err) = "RemoteAPIError"

\* a response {"message": "Not Found"} met by an unparsable local text
C10_Witness ==
    /\ pc = "threw"
    /\ body.kind = "object"
    /\ ~body.tag_name.present
    /\ body.message = Str(<<"N","o","t"," ","F","o","u","n","d">>)
    /\ localVersion = NotAVersion
    /\ result.err = RuntimeError("GitHub API error: ", body.message.str)

----------------------------------------------------------------------------
(* Properties of SemVer::parse (SpecParse) *)

\* C3: SemVer::parse of "M.N" yields (M, N, 0) and of "M.N.P" yields
\* (M, N, P) for all non-negative in-range M, N, P; one leading 'v' or 'V'
\* before either form is accepted and does not change the parsed value.
C3_ParseRoundTrip ==
    (ppc = "parsed" /\ vin.form \in {"MN", "MNP"}) =>
        /\ vout.ok
        /\ vout.ver = SemVer(vin.M, vin.N,
                             IF vin.form = "MNP" THEN vin.P ELSE 0)

\* "V10.100.2147483647" has been parsed
C3_Witness ==
    /\ ppc = "parsed"
    /\ vin.form = "MNP"
    /\ vin.pfx = <<"V">>
    /\ vin.M = 10 /\ vin.N = 100 /\ vin.P = INT_MAX
    /\ vout.ok
    /\ vout.ver.patch = INT_MAX

----------------------------------------------------------------------------
(* Properties of the SemVer comparison (SpecCmp) *)

\* C4: the comparison is a strict total order, lexicographic on (major,
\* minor, patch): exactly one of a<b, a==b, a>b holds; a<b and b<c imply
\* a<c; major decides first, then minor, then patch; a==b holds only when
\* all three components are equal.
C4_StrictTotalLexOrder ==
    cpc = "compared" =>
        /\ \/ cres.lt_ab /\ ~cres.eq_ab /\ ~cres.gt_ab
           \/ ~cres.lt_ab /\ cres.eq_ab /\ ~cres.gt_ab
           \/ ~cres.lt_ab /\ ~cres.eq_ab /\ cres.gt_ab
        /\ (cres.lt_ab /\ cres.lt_bc) => cres.lt_ac
        /\ cres.lt_ab <=> LexLess(cver[1], cver[2])
        /\ cres.gt_ab <=> LexLess(cver[2], cver[1])
        /\ cres.eq_ab <=> (/\ cver[1].major = cver[2].major
                           /\ cver[1].minor = cver[2].minor
                           /\ cver[1].patch = cver[2].patch)
        /\ cres.le_ab <=> ~cres.gt_ab
        /\ cres.ge_ab <=> ~cres.lt_ab
        /\ cres.ne_ab <=> ~cres.eq_ab

\* 0.2.1 < 1.0.0 < 1.0.1 has been compared: major outweighs minor and patch
C4_Witness ==
    /\ cpc = "compared"
    /\ cver = <<SemVer(0, 2, 1), SemVer(1, 0, 0), SemVer(1, 0, 1)>>
    /\ cres.lt_ab /\ cres.lt_bc /\ cres.lt_ac

----------------------------------------------------------------------------
(* Properties of to_github_api_url (SpecUrl) *)

\* C5 as stated: for every owner o and repo r (non-empty, no slash, r not
\* ending in .git), to_github_api_url of https://github.com/o/r and of
\* https://github.com/o/r.git both return exactly
\* https://api.github.com/repos/o/r/releases/latest.
C5_Claim_WebUrlToCanonical ==
    (/\ upc.a = "done"
     /\ uin[1].form \in {"web", "webgit"}
     /\ ~EndsWith(uin[1].repo, DotGit)) =>
        /\ uout[1].ok
        /\ uout[1].url = CanonicalApiUrl(uin[1].owner, uin[1].repo)

\* C6: to_github_api_url is idempotent: for every input it accepts, applying
\* it to its own output succeeds and returns that output again.
C6_Idempotent ==
    (upc.a = "done" /\ uout[1].ok) =>
        /\ to_github_api_url(uout[1].url).ok
        /\ upc.again = "done" =>
              (uout2.ok /\ uout2.url = uout[1].url)

\* the output for https://github.com/o/r.git has been normalised again
C6_Witness ==
    /\ upc.again = "done"
    /\ uin[1] = Ref("webgit", <<"o">>, <<"r">>)
    /\ uout[1].url = CanonicalApiUrl(<<"o">>, <<"r">>)
    /\ uout2.url = uout[1].url

\* the forms of reference that name an owner and a repo on github.com
WebForms == {"web", "webgit"}
ApiForms == {"api", "apirepo"}

\* owner and repo names outside the cases of C5 and of the .git stripping
PlainNames(r) ==
    /\ ~EndsWith(r.repo, DotGit)
    /\ ~Contains(r.repo, ApiHost)
    /\ ~Contains(r.owner, ApiHost)

\* C7 as stated: any two accepted references that name the same owner and
\* repo (web URL, web URL with .git, or a URL containing the API host) are
\* mapped to the same output string.  (Stated for names that neither end in
\* .git nor contain the API host, so a violation does not rest on C5.)
C7_Claim_OneCanonicalUrl ==
    (/\ upc.a = "done" /\ upc.b = "done"
     /\ uout[1].ok /\ uout[2].ok
     /\ uin[1].form \in WebForms \cup ApiForms
     /\ uin[2].form \in WebForms \cup ApiForms
     /\ uin[1].owner = uin[2].owner /\ uin[1].repo = uin[2].repo
     /\ PlainNames(uin[1])) =>
        uout[1].url = uout[2].url

\* C7 amended: any two accepted references that do not contain the API host
\* and name the same owner and repo (web URL with or without .git, the repo
\* name itself not ending in .git) are mapped to the same output string, the
\* canonical API URL of that owner and repo; a reference that contains the
\* API host is returned unchanged, so it yields the canonical string only if
\* it already is that string.
C7_OneCanonicalUrlForWebRefs ==
    (upc.a = "done" /\ upc.b = "done") =>
        /\ \A i \in 1..2 :
              Contains(uin[i].text, ApiHost) =>
                  (uout[i].ok /\ uout[i].url = uin[i].text)
        /\ (/\ uin[1].form \in WebForms /\ uin[2].form \in WebForms
            /\ uin[1].owner = uin[2].owner /\ uin[1].repo = uin[2].repo
            /\ PlainNames(uin[1])) =>
              /\ uout[1].ok /\ uout[2].ok
              /\ uout[1].url = uout[2].url
              /\ uout[1].url = CanonicalApiUrl(uin[1].owner, uin[1].repo)

\* https://github.com/o/r and https://github.com/o/r.git both normalised
C7_Witness ==
    /\ upc.a = "done" /\ upc.b = "done"
    /\ uin[1] = Ref("web", <<"o">>, <<"r">>)
    /\ uin[2] = Ref("webgit", <<"o">>, <<"r">>)
    /\ uout[1].url = uout[2].url

----------------------------------------------------------------------------
(* Properties of the command-line program (SpecCli) *)

\* C11: with at least two positional arguments and a completed check, the
\* exit code is 2 exactly when hasUpdate is true and 0 exactly when it is
\* false, and stdout carries the local version as given, the raw remote tag
\* and YES/NO matching hasUpdate.
C11_ExitCodeAndOutput ==
    /\ (mpc = "exited" /\ result.kind = "value") =>
          /\ argc >= 3
          /\ exitCode = (IF result.info.hasUpdate THEN 2 ELSE 0)
          /\ out = << <<"Local version:  ", argv[2]>>,
                      <<"Remote version: ", body.tag_name.str>>,
                      <<"Update:         ",
                        IF LexLess(SemVer_parse(argv[2]).ver,
                                   SemVer_parse(body.tag_name.str).ver)
                        THEN "YES" ELSE "NO">> >>
    /\ exitCode = 2 => (result.kind = "value" /\ result.info.hasUpdate)
    /\ exitCode = 0 => (result.kind = "value" /\ ~result.info.hasUpdate)

\* gh-update-checker <ref> v1.0 --x against the tag v1.1.0 has exited with 2
C11_Witness ==
    /\ mpc = "exited"
    /\ argc = 4
    /\ argv[2] = <<"v","1",".","0">>
    /\ body.tag_name.str = <<"v","1",".","1",".","0">>
    /\ exitCode = 2
    /\ out[3] = <<"Update:         ", "YES">>

\* C12: every error surfaced from the check (invalid URL, transport failure,
\* remote-API error, invalid version format, numeric overflow, unparsable
\* body) is caught in main and mapped to exit code 3, never to 0 or 2, with
\* no result lines on stdout; with fewer than two positional arguments main
\* exits 1 without running a check.
C12_ErrorsExitThree ==
    /\ argc < 3 =>
          /\ pc = "idle" /\ fetchCount = 0 /\ result = NoResult
          /\ out = <<>>
          /\ mpc # "main" => (mpc = "exited" /\ exitCode = 1)
    /\ (pc = "threw" /\ mpc # "calling") =>
          /\ mpc = "exited"
          /\ exitCode = 3
          /\ out = <<>>
          /\ errOut = << <<"Error: ", result.err.what, result.err.arg>> >>
    /\ result.kind = "exception" => exitCode \notin {0, 1, 2}

\* an overflowing local version has ended the program with exit code 3
C12_Witness ==
    /\ mpc = "exited"
    /\ exitCode = 3
    /\ result = Threw(OutOfRange)
    /\ argv[2] = IntMaxPlus1 \o <<".","0">>
    /\ out = <<>>

----------------------------------------------------------------------------
(* Properties of the error types (Spec, SpecParse) *)

\* C13 as stated: every failure of SemVer::parse, to_github_api_url, http_get
\* and check_github_update is a std::runtime_error, for all inputs and all
\* response bodies; no other error type leaves these functions.
C13_Claim_OnlyRuntimeError ==
    result.kind = "exception" => result.err.type = "std::runtime_error"

\* C14 as stated: SemVer::parse of a text whose matched major, minor or
\* patch digits exceed the int range fails with the same
\* invalid-version-format error kind as a text without a version pattern,
\* and never returns a truncated or wrapped component.
C14_Claim_OverflowIsInvalidFormat ==
    (ppc = "parsed" /\ vin.text \in OverflowTexts) =>
        /\ ~vout.ok
        /\ ErrKind(vout.err) = "InvalidVersionFormat"
        /\ vout.err.type = SemVer_parse(NotAVersion).err.type

\* C15 as stated: when the fetch succeeds but the body is malformed or not
\* JSON, the call fails with the remote-API error kind, the kind used for a
\* missing tag, and no result is returned.
C15_Claim_MalformedIsApiError ==
    (Finished /\ res = "CURLE_OK" /\ body.kind = "malformed") =>
        /\ result.kind = "exception"
        /\ ErrKind(result.err) = "RemoteAPIError"

----------------------------------------------------------------------------
(* Properties of the async wrapper (SpecAsync) *)

\* C16: whatever the synchronous check ends with is what the caller of
\* future.get() receives: a failure arrives with the same error type and
\* message, a success with the same UpdateInfo; the check ran on copies of
\* the caller's two strings.
C16_FutureDeliversOutcome ==
    /\ future.state = "ready" =>
          (pc \in {"done", "threw"} /\ future.outcome = result)
    /\ apc = "got" =>
          /\ result.kind # "none"
          /\ got = result
          /\ repoUrl = aargs[1] /\ localVersion = aargs[2]

\* future.get() has rethrown the invalid-version error of the check
C16_Witness ==
    /\ apc = "got"
    /\ got = Threw(RuntimeError("Invalid SemVer: ", NotAVersion))
    /\ aargs[2] = NotAVersion
    /\ fetchCount = 1

\* C21: every check started through check_github_update_async eventually
\* has its future holding an UpdateInfo or an error, given that the http_get
\* call comes back; a pending future only ever becomes ready (there is no
\* cancellation), and while it is pending the task always has a next
\* statement to run, so no started check is left without an outcome.
C21_StartedCheckEnds ==
    /\ [](future.state = "pending" =>
            <>(/\ future.state = "ready"
               /\ future.outcome.kind \in {"value", "exception"}
               /\ future.outcome = result))
    /\ [][ future.state = "pending" =>
             /\ future'.state \in {"pending", "ready"}
             /\ aargs' = aargs
             /\ pc' # "idle" ]_vars
    /\ [](future.state = "pending" =>
            ENABLED (TaskSteps \/ HttpGet \/ TaskFinish))

\* the future of a started check holds the error of a failed transfer
\* before the caller has asked for it
C21_Witness ==
    /\ apc = "waiting"
    /\ future.state = "ready"
    /\ future.outcome = Threw(RuntimeError("HTTP request failed", <<>>))
    /\ fetchCount = 1
    /\ got = NoResult

----------------------------------------------------------------------------
(* Properties of the step order of one call (Spec) *)

\* C18: within one call http_get is invoked at most once; a failure at any
\* step ends the call with exactly one error and no UpdateInfo; no step is
\* retried and no later step runs after a failed one.
C18_OneFetchOneError ==
    [][ /\ fetchCount' <= 1
        /\ fetchCount' # fetchCount => (pc = "http_get" /\ fetchCount = 0)
        /\ pc = "threw" => UNCHANGED checkVars
        /\ result.kind # "none" => result' = result
        /\ pc' = "threw" <=> result'.kind = "exception"
        /\ result'.kind = "exception" => result'.info = NoInfo
        /\ pc' # pc => pc # "http_get" \/ pc' # "http_get" ]_vars

\* a failed transfer has ended the call after its single fetch
C18_Witness ==
    /\ pc = "threw"
    /\ res = "failed"
    /\ fetchCount = 1
    /\ result = Threw(RuntimeError("HTTP request failed", <<>>))
    /\ body = NoBody /\ json = NoJson /\ latest = <<>>

\* the response carries a string tag_name
HasStringTag(b) ==
    b.kind = "object" /\ b.tag_name.present /\ b.tag_name.isString

\* C22 as stated: when several steps of one call would fail, the error
\* reported is the one of the earliest step in the order invalid URL,
\* transport failure, unparsable body, missing tag (message or generic),
\* invalid local version, invalid remote tag; a missing tag wins over an
\* invalid local version, and when both the local text and the tag are
\* invalid the error names the local text.
C22_Claim_EarliestStepError ==
    Finished =>
        LET urlBad    == ~to_github_api_url(repoUrl).ok
            netBad    == res \in {"init_failed", "failed"}
            bodyBad   == res = "CURLE_OK" /\ body.kind = "malformed"
            tagBad    == /\ res = "CURLE_OK" /\ body.kind # "malformed"
                         /\ ~HasStringTag(body)
            tagOk     == res = "CURLE_OK" /\ HasStringTag(body)
            localBad  == ~SemVer_parse(localVersion).ok
            remoteBad == ~SemVer_parse(body.tag_name.str).ok
        IN /\ urlBad =>
                 result = Threw(RuntimeError("Invalid GitHub URL: ", repoUrl))
           /\ netBad => ErrKind(result.err) = "NetworkError"
           /\ bodyBad => result = Threw(JsonParseError)
           /\ tagBad => ErrKind(result.err) = "RemoteAPIError"
           /\ (tagOk /\ localBad) =>
                 result = Threw(SemVer_parse(localVersion).err)
           /\ (tagOk /\ localBad /\ remoteBad) =>
                 result = Threw(RuntimeError("Invalid SemVer: ", localVersion))
           /\ (tagOk /\ ~localBad /\ remoteBad) =>
                 result = Threw(SemVer_parse(body.tag_name.str).err)
           /\ (tagOk /\ ~localBad /\ ~remoteBad) => result.kind = "value"

----------------------------------------------------------------------------
(* Further properties of to_github_api_url and SemVer::parse *)

\* the text is exactly https://github.com/<owner>/<repo>
IsExactWebShape(t) ==
    /\ OccursAt(t, WebPrefix, 1)
    /\ \E j \in (Len(WebPrefix) + 2)..(Len(t) - 1) :
          /\ t[j] = "/"
          /\ \A k \in (Len(WebPrefix) + 1)..Len(t) : k # j => t[k] # "/"

\* C19 as stated: to_github_api_url fails with the invalid-repository-URL
\* error for every input that does not contain the API host and is not of
\* the shape https://github.com/<owner>/<repo>; leading text, extra path
\* segments and other schemes are rejected.
C19_Claim_OnlyExactShapeAccepted ==
    (/\ upc.a = "done"
     /\ ~Contains(uin[1].text, ApiHost)
     /\ ~IsExactWebShape(uin[1].text)) =>
        /\ ~uout[1].ok
        /\ uout[1].err = RuntimeError("Invalid GitHub URL: ", uin[1].text)

\* the text is https://api.github.com/repos/<owner>/<repo>/releases/latest
\* with owner and repo non-empty and free of slashes
IsCanonicalShape(u) ==
    /\ Len(u) >= Len(ApiPrefix) + Len(ApiSuffix)
    /\ OccursAt(u, ApiPrefix, 1)
    /\ EndsWith(u, ApiSuffix)
    /\ LET mid == Slice(u, Len(ApiPrefix) + 1, Len(u) - Len(ApiSuffix) + 1)
       IN \E j \in 2..(Len(mid) - 1) :
             /\ mid[j] = "/"
             /\ \A k \in 1..Len(mid) : k # j => mid[k] # "/"

\* C23 as stated: for every input that does not contain the API host and
\* that to_github_api_url accepts, the returned string has the exact shape
\* https://api.github.com/repos/<owner>/<repo>/releases/latest with owner
\* and repo both non-empty and without a slash, also after the trailing
\* .git is stripped (a repo segment that is exactly ".git" included).
C23_Claim_AcceptedGivesCanonicalShape ==
    (/\ upc.a = "done"
     /\ ~Contains(uin[1].text, ApiHost)
     /\ uout[1].ok) =>
        IsCanonicalShape(uout[1].url)

\* C20 as stated: SemVer::parse returns the version of the leftmost
\* substring of the form optional 'v', digits, '.', digits, optional '.'
\* digits, ignoring the text around it, and fails only when the text holds
\* no such substring.
C20_Claim_FailsOnlyWithoutPattern ==
    ppc = "parsed" =>
        /\ vin.form \in {"embMN", "embMNP"} =>
              (vout.ok /\ vout.ver = SemVer(vin.M, vin.N, vin.P))
        /\ ~vout.ok <=> ~HasVersionPattern(vin.text)

\* C20 amended: SemVer::parse returns the version of the leftmost such
\* substring, ignoring the text around it; it fails with the invalid-SemVer
\* error when the text holds no such substring, and otherwise only when a
\* matched component does not fit an int, with std::out_of_range.
C20_LeftmostMatchOrOverflow ==
    ppc = "parsed" =>
        /\ vin.form \in {"embMN", "embMNP"} =>
              (vout.ok /\ vout.ver = SemVer(vin.M, vin.N, vin.P))
        /\ vin.text = ReleaseStable => vout.ver = SemVer(2, 0, 0)
        /\ ~HasVersionPattern(vin.text) =>
              (~vout.ok /\ vout.err = RuntimeError("Invalid SemVer: ", vin.text))
        /\ (HasVersionPattern(vin.text) /\ ~vout.ok) =>
              (vin.text \in OverflowTexts /\ vout.err = OutOfRange)
        /\ vin.text \in OverflowTexts => ~vout.ok

\* "1.x.v12.7.3 3.4.5" has been parsed as 12.7.3
C20_Witness ==
    /\ ppc = "parsed"
    /\ vin.form = "embMNP"
    /\ vin.text = <<"1",".","x",".","v","1","2",".","7",".","3",
                    " ","3",".","4",".","5">>
    /\ vout.ok
    /\ vout.ver = SemVer(12, 7, 3)

----------------------------------------------------------------------------
(* Properties of concurrent invocations (SpecConc) *)

ConcFinished(c) == c.pc \in {"done", "threw"}

\* C17: when several invocations run concurrently, under every interleaving
\* each invocation performs its own fetch, and its result or error is the
\* one check_github_update gives for its own two arguments and its own
\* response; a step of one invocation leaves the others untouched, and
\* identical requests are not coalesced.
C17_InvocationsIndependent ==
    /\ [](\A i \in Invs :
            /\ inv[i].pc \in {"json_parse", "tag_check", "parse_local",
                              "parse_remote", "return", "done"}
                  => (inv[i].fetchCount = 1 /\ inv[i].res = "CURLE_OK")
            /\ inv[i].fetchCount <= 1
            /\ ConcFinished(inv[i]) =>
                  inv[i].result =
                      check_github_update(inv[i].repoUrl, inv[i].localVersion,
                                          Outcome(inv[i].res, inv[i].body)))
    /\ [][ \A i \in Invs : \A j \in Invs :
             (i # j /\ inv'[i] # inv[i]) => inv'[j] = inv[j] ]_vars

\* two invocations with the same arguments ended differently, each on the
\* response of its own fetch
C17_Witness ==
    /\ inv[1].repoUrl = inv[2].repoUrl
    /\ inv[1].localVersion = inv[2].localVersion
    /\ inv[1].fetchCount = 1 /\ inv[2].fetchCount = 1
    /\ inv[1].result.kind = "value"
    /\ inv[2].result = Threw(RuntimeError("HTTP request failed", <<>>))

====
